---- MODULE Spec2Model ----
(***************************************************************************)
(* v8eval: the _V8 engine wrapper's debug channel and the DbgSrv debugger  *)
(* bridge (src/src/v8eval.cxx, src/src/v8eval.h).                          *)
(*                                                                         *)
(* Three threads are modelled: the caller thread (start, eval, ~DbgSrv),   *)
(* the Network Loop thread (dbgsrv_, running the libuv handlers accept_,   *)
(* recv_from_socket_, send_to_socket_, end_write_, shutdown_) and the      *)
(* Processing Loop thread (dbgproc_, running dbgproc_do_proc_ and          *)
(* dbgproc_do_stop_).                                                      *)
(* A libuv handler runs to completion on its loop's thread; a handler is   *)
(* split into several steps only where another thread can observe or       *)
(* disturb it (the engine calls, the queue operations, the two status      *)
(* assignments of shutdown_).                                              *)
(***************************************************************************)
EXTENDS Integers, Sequences, FiniteSets, TLC

\* ---------------------------------------------------------------- bounds
MaxEvents == 1
MaxReads == 2
MaxConns == 2
MaxStarts == 2
MaxCalls == 4

\* ------------------------------------------------------- input domains
\* start(int port): 0 asks the OS for an ephemeral port.
Ports == {0, 5858}
\* What uv_tcp_getsockname may report for a socket bound to port 0.
EphemeralPorts == {49152}
\* The callbacks, contexts and commands a direct user of _V8 may pass.
Callbacks == {"cb1", "cb2"}
Contexts == {"opq1", "opq2"}
CmdTexts == {1, 2}
\* The status libuv passes to a write's completion callback: 0, or a
\* negative error code.
WriteStatuses == {0, -1}

VARIABLES
  \* _V8 (v8eval.h 69-74) and the engine's debug channel
  callback_, callbackopq_, dbg_isolate_, handler, cmds, locker,
  \* DbgSrv (v8eval.h 111-132)
  status_, dbgsrv_port_, msg_queue_,
  dbgsrv_serv_, dbgsrv_clnt_, dbgsrv_send_, dbgsrv_stop_,
  dbgproc_proc_, dbgproc_stop_,
  dbgsrv_thread_, dbgproc_thread_, dbgsrv_loop_, dbgproc_loop_,
  \* libuv: async handles with a signal pending; the listener's bound port;
  \* the connection dbgsrv_clnt_ holds (0: none)
  pending, serv_port, client,
  \* positions of the three threads, the message a callback is pushing
  pc_caller, pc_net, pc_proc, push_msg,
  \* the process has crashed (an outcome of undefined behaviour)
  crashed,
  \* history: messages handed to the callback, payloads handed to uv_write,
  \* the last API call and its result
  produced, written, last_call,
  \* for each entry of msg_queue_ the connection that was attached when it
  \* was pushed; the number of uv_write requests whose end_write_ has run
  msg_origin, completed,
  \* Network Loop threads still inside uv_run whose handle in dbgsrv_thread_
  \* was overwritten by a later start
  net_leaked,
  \* counters that bound the environment
  nstarts, nconns, nreads, nevents, ncalls

v8vars == <<callback_, callbackopq_, dbg_isolate_, handler, cmds, locker>>
handlevars == <<dbgsrv_serv_, dbgsrv_clnt_, dbgsrv_send_, dbgsrv_stop_,
                dbgproc_proc_, dbgproc_stop_>>
threadvars == <<dbgsrv_thread_, dbgproc_thread_, dbgsrv_loop_, dbgproc_loop_,
               net_leaked>>
srvvars == <<status_, dbgsrv_port_, msg_queue_, msg_origin, serv_port,
             client>>
pcvars == <<pc_caller, pc_net, pc_proc, push_msg>>
histvars == <<produced, written, last_call, completed>>
envvars == <<nstarts, nconns, nreads, nevents, ncalls>>
vars == <<v8vars, handlevars, threadvars, srvvars, pending, pcvars, crashed,
          histvars, envvars>>

\* No API call has been made yet.
NoCall == [op |-> "none"]

\* ------------------------------------------------------------------ _V8
\* The engine-side effect of each debug method, as the new values of the
\* fields it writes and its return value.

\* A debugger_init that overwrites a registered callback.
debugger_init_overwrite(cb, opq) ==
  [ret |-> TRUE, callback |-> cb, opq |-> opq, handler |-> TRUE]

\* _V8::debugger_init: refuses when a callback is registered, else stores
\* the callback and its context and installs debugger_message_handler.
debugger_init(cb, opq) ==
  IF callback_ # "nullptr"
  THEN [ret |-> FALSE, callback |-> callback_, opq |-> callbackopq_,
        handler |-> handler]
  ELSE [ret |-> TRUE, callback |-> cb, opq |-> opq, handler |-> TRUE]

\* _V8::debugger_send: refuses when no callback is registered, else hands
\* the command to v8::Debug::SendCommand (the engine's command queue).
debugger_send(cmd) ==
  IF callback_ = "nullptr"
  THEN [ret |-> FALSE, cmds |-> cmds]
  ELSE [ret |-> TRUE, cmds |-> Append(cmds, cmd)]

\* A debugger_stop that leaves the handler and the callback registered.
debugger_stop_noop == [callback |-> callback_, handler |-> handler]

\* _V8::debugger_stop: removes the engine's message handler and the
\* registered callback.
debugger_stop == [callback |-> "nullptr", handler |-> FALSE]

\* _V8::debugger_message_handler: the engine calls it (when installed) for
\* each outbound message; it calls the registered callback, if any.
CallbackInvoked == handler /\ callback_ # "nullptr"

\* ------------------------------------------------- _V8 used on its own
\* A host that drives the debug channel of one _V8 instance directly, from
\* one thread, with no DbgSrv attached.

InitV8 ==
  /\ callback_ = "nullptr" /\ callbackopq_ = "uninit"
  /\ dbg_isolate_ = "uninit" /\ handler = FALSE /\ cmds = <<>>
  /\ locker = "none"
  /\ status_ = "offline" /\ dbgsrv_port_ = 0 /\ msg_queue_ = <<>>
  /\ serv_port = 0 /\ client = 0
  /\ dbgsrv_serv_ = "uninit" /\ dbgsrv_clnt_ = "uninit"
  /\ dbgsrv_send_ = "uninit" /\ dbgsrv_stop_ = "uninit"
  /\ dbgproc_proc_ = "uninit" /\ dbgproc_stop_ = "uninit"
  /\ dbgsrv_thread_ = "none" /\ dbgproc_thread_ = "none"
  /\ dbgsrv_loop_ = "uninit" /\ dbgproc_loop_ = "uninit"
  /\ pending = {}
  /\ pc_caller = "idle" /\ pc_net = "off" /\ pc_proc = "off" /\ push_msg = 0
  /\ crashed = FALSE
  /\ produced = 0 /\ written = <<>> /\ last_call = NoCall
  /\ msg_origin = <<>> /\ completed = 0 /\ net_leaked = 0
  /\ nstarts = 0 /\ nconns = 0 /\ nreads = 0 /\ nevents = 0 /\ ncalls = 0

bridgevars == <<handlevars, threadvars, srvvars, pending, pcvars, written,
                completed, nstarts, nconns, nreads, nevents>>

V8Init(cb, opq) ==
  /\ ~crashed /\ ncalls < MaxCalls
  /\ LET r == debugger_init(cb, opq) IN
       /\ callback_' = r.callback
       /\ callbackopq_' = r.opq
       /\ handler' = r.handler
       /\ last_call' = [op |-> "debugger_init", cb |-> cb, opq |-> opq,
                        ret |-> r.ret, before_cb |-> callback_,
                        before_opq |-> callbackopq_]
  /\ dbg_isolate_' = "valid"
  /\ ncalls' = ncalls + 1
  /\ UNCHANGED <<cmds, locker, produced, crashed, bridgevars>>

\* debugger_send locks dbg_isolate_, which only debugger_init sets: before
\* the first debugger_init the pointer is uninitialized, and the call either
\* crashes or happens to go on.
V8Send(cmd) ==
  /\ ~crashed /\ ncalls < MaxCalls
  /\ ncalls' = ncalls + 1
  /\ \/ /\ LET r == debugger_send(cmd) IN
             /\ cmds' = r.cmds
             /\ last_call' = [op |-> "debugger_send", cmd |-> cmd,
                              ret |-> r.ret, before_cb |-> callback_,
                              before_cmds |-> cmds]
        /\ crashed' = crashed
     \/ /\ dbg_isolate_ = "uninit"
        /\ crashed' = TRUE
        /\ last_call' = [op |-> "debugger_send", cmd |-> cmd,
                         ret |-> "none", before_cb |-> callback_,
                         before_cmds |-> cmds]
        /\ UNCHANGED cmds
  /\ UNCHANGED <<callback_, callbackopq_, dbg_isolate_, handler, locker,
                 produced, bridgevars>>

\* debugger_process: the engine answers every queued command, calling
\* debugger_message_handler (if installed) once per answer.
V8Process ==
  /\ ~crashed /\ ncalls < MaxCalls
  /\ ncalls' = ncalls + 1
  /\ cmds' = <<>>
  /\ produced' = IF CallbackInvoked THEN produced + Len(cmds) ELSE produced
  /\ last_call' = [op |-> "debugger_process"]
  /\ UNCHANGED <<callback_, callbackopq_, dbg_isolate_, handler, locker,
                 crashed, bridgevars>>

V8Stop ==
  /\ ~crashed /\ ncalls < MaxCalls
  /\ ncalls' = ncalls + 1
  /\ callback_' = debugger_stop.callback
  /\ handler' = debugger_stop.handler
  /\ last_call' = [op |-> "debugger_stop"]
  /\ UNCHANGED <<callbackopq_, dbg_isolate_, cmds, locker, produced,
                 crashed, bridgevars>>

NextV8 ==
  \/ \E cb \in Callbacks, opq \in Contexts : V8Init(cb, opq)
  \/ \E cmd \in CmdTexts : V8Send(cmd)
  \/ V8Process
  \/ V8Stop

SpecV8 == InitV8 /\ [][NextV8]_vars

\* --------------------------------------------------------------- DbgSrv
\* A libuv handle is "uninit" (never initialized), "init" (initialized but
\* not keeping its loop alive), "active" or "closed" (uv_close was called).

\* std::list operations used on msg_queue_; the front is index 1.
push_front(q, m) == <<m>> \o q
back(q) == q[Len(q)]
pop_back(q) == SubSeq(q, 1, Len(q) - 1)

\* uv_async_send on a live handle marks it pending (signals coalesce); on a
\* closed handle the callback never runs.
AsyncSend(name, st) == IF st = "active" THEN pending \cup {name} ELSE pending

\* The state after DbgSrv::DbgSrv on a freshly constructed _V8: the
\* Processing Loop thread is running, the Network Loop has no handle yet.
Init ==
  /\ callback_ = "nullptr" /\ callbackopq_ = "uninit"
  /\ dbg_isolate_ = "uninit" /\ handler = FALSE /\ cmds = <<>>
  /\ locker = "none"
  /\ status_ = "offline" /\ dbgsrv_port_ = 0 /\ msg_queue_ = <<>>
  /\ serv_port = 0 /\ client = 0
  /\ dbgsrv_serv_ = "uninit" /\ dbgsrv_clnt_ = "uninit"
  /\ dbgsrv_send_ = "uninit" /\ dbgsrv_stop_ = "uninit"
  /\ dbgproc_proc_ = "active" /\ dbgproc_stop_ = "active"
  /\ dbgsrv_thread_ = "none" /\ dbgproc_thread_ = "running"
  /\ dbgsrv_loop_ = "open" /\ dbgproc_loop_ = "open"
  /\ pending = {}
  /\ pc_caller = "idle" /\ pc_net = "off" /\ pc_proc = "poll" /\ push_msg = 0
  /\ crashed = FALSE
  /\ produced = 0 /\ written = <<>> /\ last_call = NoCall
  /\ msg_origin = <<>> /\ completed = 0 /\ net_leaked = 0
  /\ nstarts = 0 /\ nconns = 0 /\ nreads = 0 /\ nevents = 0 /\ ncalls = 0

\* Destruction of the bridge has begun (the caller is inside ~DbgSrv).
Destroying == pc_caller \notin {"idle", "eval", "eval_push"}

\* ------------------------------------------------------- caller thread

\* DbgSrv::start. The outcome o is what the operating system answers:
\* uv_tcp_bind fails, uv_tcp_getsockname fails, uv_listen fails, or all
\* succeed. The function does not look at status_: a call on a started or
\* connected bridge runs the same statements on the live handles.
Start(port, o, eph) ==
  /\ ~crashed /\ pc_caller = "idle" /\ nstarts < MaxStarts
  /\ nstarts' = nstarts + 1
  /\ o = "getsockname_fail" => port = 0
  /\ LET bound == IF port = 0 THEN eph ELSE port
         r == debugger_init("recv_from_debugger_", "db")
     IN
     \/ /\ o = "bind_fail"
        /\ dbgsrv_serv_' = "init" /\ serv_port' = 0
        /\ last_call' = [op |-> "start", ret |-> FALSE]
        /\ UNCHANGED <<v8vars, status_, dbgsrv_port_, dbgsrv_stop_,
                       dbgsrv_thread_, net_leaked, pc_net, pending>>
     \/ /\ o = "getsockname_fail"
        /\ dbgsrv_serv_' = "init" /\ serv_port' = bound
        /\ last_call' = [op |-> "start", ret |-> FALSE]
        /\ UNCHANGED <<v8vars, status_, dbgsrv_port_, dbgsrv_stop_,
                       dbgsrv_thread_, net_leaked, pc_net, pending>>
     \/ /\ o = "listen_fail"
        /\ dbgsrv_serv_' = "init" /\ serv_port' = bound
        /\ dbgsrv_port_' = bound
        /\ last_call' = [op |-> "start", ret |-> FALSE]
        /\ UNCHANGED <<v8vars, status_, dbgsrv_stop_, dbgsrv_thread_,
                       net_leaked, pc_net, pending>>
     \/ /\ o = "ok"
        \* debugger_init takes the isolate's Locker once it has stored
        \* the callback
        /\ r.ret => locker = "none"
        /\ dbgsrv_serv_' = "active" /\ serv_port' = bound
        /\ dbgsrv_port_' = bound
        /\ callback_' = r.callback /\ callbackopq_' = r.opq
        /\ handler' = r.handler /\ dbg_isolate_' = "valid"
        /\ status_' = "started"
        /\ dbgsrv_stop_' = "active" /\ pending' = pending \ {"stop"}
        \* uv_thread_create overwrites dbgsrv_thread_: a thread started by
        \* an earlier call keeps running the same loop, out of reach of join
        /\ dbgsrv_thread_' = "running"
        /\ net_leaked' = IF dbgsrv_thread_ = "running" THEN net_leaked + 1
                         ELSE net_leaked
        /\ pc_net' = IF pc_net \in {"off", "exited"} THEN "poll" ELSE pc_net
        /\ last_call' = [op |-> "start", ret |-> TRUE]
        /\ UNCHANGED <<cmds, locker>>
  /\ UNCHANGED <<msg_queue_, msg_origin, client, dbgsrv_clnt_, dbgsrv_send_, dbgproc_proc_,
                 dbgproc_stop_, dbgproc_thread_, dbgsrv_loop_, dbgproc_loop_,
                 pc_caller, pc_proc, push_msg, crashed, produced, written,
                 msg_origin, completed,
                 nconns, nreads, nevents, ncalls>>

\* _V8::eval on the caller thread: takes the isolate's Locker.
EvalBegin ==
  /\ ~crashed /\ pc_caller = "idle" /\ locker = "none"
  /\ locker' = "caller" /\ pc_caller' = "eval"
  /\ UNCHANGED <<callback_, callbackopq_, dbg_isolate_, handler, cmds,
                 handlevars, threadvars, srvvars, pending, pc_net, pc_proc,
                 push_msg, crashed, histvars, envvars>>

\* While the script runs, the engine reports a debug event: it calls
\* debugger_message_handler, which calls the registered callback
\* (recv_from_debugger_), which starts msg_queue_.push_front.
EvalEmit ==
  /\ ~crashed /\ pc_caller = "eval" /\ nevents < MaxEvents
  /\ CallbackInvoked
  /\ nevents' = nevents + 1
  /\ produced' = produced + 1 /\ push_msg' = produced + 1
  /\ pc_caller' = "eval_push"
  /\ UNCHANGED <<v8vars, handlevars, threadvars, srvvars, pending, pc_net,
                 pc_proc, crashed, written, completed, last_call, nstarts, nconns,
                 nreads, ncalls>>

EvalEnd ==
  /\ ~crashed /\ pc_caller = "eval"
  /\ locker' = "none" /\ pc_caller' = "idle"
  /\ UNCHANGED <<callback_, callbackopq_, dbg_isolate_, handler, cmds,
                 handlevars, threadvars, srvvars, pending, pc_net, pc_proc,
                 push_msg, crashed, histvars, envvars>>

\* The Network Loop thread is inside send_to_socket_'s loop over msg_queue_.
Draining == pc_net \in {"drain_loop", "drain_pop"}
\* An engine thread is inside recv_from_debugger_'s msg_queue_.push_front.
Pushing == pc_caller = "eval_push" \/ pc_proc = "proc_push"

\* The rest of DbgSrv::recv_from_debugger_: push_front completes and
\* dbgsrv_send_ is signalled. msg_queue_ has no lock: when the push overlaps
\* a drain on the Network Loop thread the two list operations race, and the
\* push takes effect, is lost, or the process crashes on a torn list.
\* uv_async_send on a never-initialized dbgsrv_send_ does nothing or crashes.
RecvFromDebuggerDone ==
  \/ /\ msg_queue_' = push_front(msg_queue_, push_msg)
     /\ msg_origin' = push_front(msg_origin, client)
     /\ pending' = AsyncSend("send", dbgsrv_send_)
     /\ crashed' = crashed
  \/ /\ Draining
     /\ UNCHANGED <<msg_queue_, msg_origin>>
     /\ pending' = AsyncSend("send", dbgsrv_send_)
     /\ crashed' = crashed
  \/ /\ Draining \/ dbgsrv_send_ = "uninit"
     /\ crashed' = TRUE
     /\ UNCHANGED <<msg_queue_, msg_origin, pending>>

EvalPushDone ==
  /\ ~crashed /\ pc_caller = "eval_push"
  /\ RecvFromDebuggerDone
  /\ pc_caller' = "eval" /\ push_msg' = 0
  /\ UNCHANGED <<v8vars, handlevars, threadvars, status_, dbgsrv_port_,
                 serv_port, client, pc_net, pc_proc, histvars, envvars>>

\* uv_loop_close: succeeds only when every handle initialized on the loop
\* has been closed; otherwise it returns UV_EBUSY and the loop stays.
LoopClose(hs) ==
  IF \A h \in hs : h \in {"uninit", "closed"} THEN "closed" ELSE "busy"

\* ~DbgSrv, first statement: v8_.debugger_stop() under the isolate's Locker.
DtorDebuggerStop ==
  /\ ~crashed /\ pc_caller = "idle" /\ locker = "none"
  /\ callback_' = debugger_stop.callback
  /\ handler' = debugger_stop.handler
  /\ pc_caller' = "dtor_stop_net"
  /\ last_call' = [op |-> "destroy", status |-> status_]
  /\ UNCHANGED <<callbackopq_, dbg_isolate_, cmds, locker, handlevars,
                 threadvars, srvvars, pending, pc_net, pc_proc, push_msg,
                 crashed, produced, written, completed, envvars>>

\* uv_async_send(&dbgsrv_stop_): the handle exists only after a start that
\* reached uv_async_init; on a never-initialized handle the call does
\* nothing or crashes.
DtorStopNet ==
  /\ ~crashed /\ pc_caller = "dtor_stop_net"
  /\ \/ /\ pending' = AsyncSend("stop", dbgsrv_stop_)
        /\ pc_caller' = "dtor_join_net"
        /\ crashed' = crashed
     \/ /\ dbgsrv_stop_ = "uninit"
        /\ crashed' = TRUE
        /\ UNCHANGED <<pending, pc_caller>>
  /\ UNCHANGED <<v8vars, handlevars, threadvars, srvvars, pc_net, pc_proc,
                 push_msg, histvars, envvars>>

\* uv_thread_join(&dbgsrv_thread_) returns once the Network Loop thread has
\* left uv_run; joining a thread that was never created returns an error or
\* crashes. Then uv_loop_close(&dbgsrv_loop_).
DtorJoinNet ==
  /\ ~crashed /\ pc_caller = "dtor_join_net"
  /\ dbgsrv_thread_ # "running"
  /\ \/ /\ dbgsrv_loop_' = LoopClose({dbgsrv_serv_, dbgsrv_clnt_,
                                      dbgsrv_send_, dbgsrv_stop_})
        /\ pc_caller' = "dtor_stop_proc"
        /\ crashed' = crashed
     \/ /\ dbgsrv_thread_ = "none"
        /\ crashed' = TRUE
        /\ UNCHANGED <<dbgsrv_loop_, pc_caller>>
  /\ UNCHANGED <<v8vars, handlevars, dbgsrv_thread_, dbgproc_thread_,
                 dbgproc_loop_, net_leaked, srvvars, pending, pc_net, pc_proc,
                 push_msg, histvars, envvars>>

\* uv_async_send(&dbgproc_stop_)
DtorStopProc ==
  /\ ~crashed /\ pc_caller = "dtor_stop_proc"
  /\ pending' = AsyncSend("pstop", dbgproc_stop_)
  /\ pc_caller' = "dtor_join_proc"
  /\ UNCHANGED <<v8vars, handlevars, threadvars, srvvars, pc_net, pc_proc,
                 push_msg, crashed, histvars, envvars>>

\* uv_thread_join(&dbgproc_thread_); uv_loop_close(&dbgproc_loop_)
DtorJoinProc ==
  /\ ~crashed /\ pc_caller = "dtor_join_proc"
  /\ dbgproc_thread_ = "exited"
  /\ dbgproc_loop_' = LoopClose({dbgproc_proc_, dbgproc_stop_})
  /\ pc_caller' = "done"
  /\ UNCHANGED <<v8vars, handlevars, dbgsrv_thread_, dbgproc_thread_,
                 dbgsrv_loop_, net_leaked, srvvars, pending, pc_net, pc_proc,
                 push_msg, crashed, histvars, envvars>>

\* ------------------------------------------------- Network Loop thread

\* DbgSrv::accept_, run for each connection event on the listener. st is
\* the status libuv passes, acc the result of uv_accept. The handler does
\* not look at status_: it initializes dbgsrv_clnt_ and dbgsrv_send_ again
\* whether or not a client is attached.
Accept(st, acc) ==
  /\ ~crashed /\ pc_net = "poll" /\ dbgsrv_serv_ = "active"
  /\ nconns < MaxConns
  /\ \/ /\ st = "error"
        /\ UNCHANGED <<dbgsrv_clnt_, dbgsrv_send_, status_, pending, client,
                       nconns>>
     \/ /\ st = "ok" /\ acc = "fail"
        /\ nconns' = nconns + 1
        /\ dbgsrv_clnt_' = "closed" /\ client' = 0
        /\ UNCHANGED <<dbgsrv_send_, status_, pending>>
     \/ /\ st = "ok" /\ acc = "ok"
        /\ nconns' = nconns + 1
        /\ dbgsrv_clnt_' = "active" /\ client' = nconns + 1
        /\ dbgsrv_send_' = "active" /\ pending' = pending \ {"send"}
        /\ status_' = "connected"
  /\ UNCHANGED <<v8vars, dbgsrv_serv_, dbgsrv_stop_, dbgproc_proc_,
                 dbgproc_stop_, threadvars, dbgsrv_port_, msg_queue_, msg_origin,
                 serv_port, pcvars, crashed, histvars, nstarts, nreads,
                 nevents, ncalls>>

\* DbgSrv::recv_from_socket_ with nread = 0: nothing to do.
RecvNothing ==
  /\ ~crashed /\ pc_net = "poll" /\ dbgsrv_clnt_ = "active"
  /\ UNCHANGED vars

RecvError_keep_send ==
  /\ ~crashed /\ pc_net = "poll" /\ dbgsrv_clnt_ = "active"
  /\ dbgsrv_clnt_' = "closed" /\ client' = 0
  /\ status_' = "started"
  /\ UNCHANGED <<v8vars, dbgsrv_serv_, dbgsrv_send_, dbgsrv_stop_,
                 dbgproc_proc_, dbgproc_stop_, threadvars, dbgsrv_port_,
                 msg_queue_, msg_origin, serv_port, pending, pcvars, crashed,
                 histvars, envvars>>

\* DbgSrv::recv_from_socket_ with nread < 0 (end of stream or error): close
\* the send-wake and client handles, back to started.
RecvError ==
  /\ ~crashed /\ pc_net = "poll" /\ dbgsrv_clnt_ = "active"
  /\ dbgsrv_send_' = "closed" /\ dbgsrv_clnt_' = "closed" /\ client' = 0
  /\ pending' = pending \ {"send"}
  /\ status_' = "started"
  /\ UNCHANGED <<v8vars, dbgsrv_serv_, dbgsrv_stop_, dbgproc_proc_,
                 dbgproc_stop_, threadvars, dbgsrv_port_, msg_queue_, msg_origin,
                 serv_port, pcvars, crashed, histvars, envvars>>

\* DbgSrv::recv_from_socket_ with nread > 0: the thread enters
\* v8_.debugger_send, which locks dbg_isolate_ (not isolate_).
RecvData ==
  /\ ~crashed /\ pc_net = "poll" /\ dbgsrv_clnt_ = "active"
  /\ nreads < MaxReads
  /\ nreads' = nreads + 1
  /\ pc_net' = "debugger_send"
  /\ UNCHANGED <<v8vars, handlevars, threadvars, srvvars, pending, pc_caller,
                 pc_proc, push_msg, crashed, histvars, nstarts, nconns,
                 nevents, ncalls>>

RecvDataDone_no_wake ==
  /\ ~crashed /\ pc_net = "debugger_send"
  /\ cmds' = debugger_send(nreads).cmds
  /\ pc_net' = "poll"
  /\ UNCHANGED <<callback_, callbackopq_, dbg_isolate_, handler, locker,
                 handlevars, threadvars, srvvars, pending, pc_caller,
                 pc_proc, push_msg, crashed, histvars, envvars>>

\* debugger_send reads callback_ and forwards the command; then
\* recv_from_socket_ signals dbgproc_proc_.
RecvDataDone ==
  /\ ~crashed /\ pc_net = "debugger_send"
  /\ cmds' = debugger_send(nreads).cmds
  /\ pending' = AsyncSend("proc", dbgproc_proc_)
  /\ pc_net' = "poll"
  /\ UNCHANGED <<callback_, callbackopq_, dbg_isolate_, handler, locker,
                 handlevars, threadvars, srvvars, pc_caller, pc_proc,
                 push_msg, crashed, histvars, envvars>>

\* DbgSrv::send_to_socket_ starts: libuv clears the pending signal and
\* calls the handler.
SendToSocket ==
  /\ ~crashed /\ pc_net = "poll"
  /\ "send" \in pending /\ dbgsrv_send_ = "active"
  /\ pending' = pending \ {"send"}
  /\ pc_net' = "drain_loop"
  /\ UNCHANGED <<v8vars, handlevars, threadvars, srvvars, pc_caller, pc_proc,
                 push_msg, crashed, histvars, envvars>>

\* The loop test, and for a non-empty queue back() and uv_write.
DrainLoop ==
  /\ ~crashed /\ pc_net = "drain_loop"
  /\ IF msg_queue_ = <<>>
     THEN pc_net' = "poll" /\ written' = written
     ELSE pc_net' = "drain_pop" /\ written' = Append(written, back(msg_queue_))
  /\ UNCHANGED <<v8vars, handlevars, threadvars, srvvars, pending, pc_caller,
                 pc_proc, push_msg, crashed, produced, last_call, completed,
                 envvars>>

\* pop_back, then back to the loop test.
DrainPop ==
  /\ ~crashed /\ pc_net = "drain_pop"
  /\ msg_queue_' = pop_back(msg_queue_)
  /\ msg_origin' = pop_back(msg_origin)
  /\ pc_net' = "drain_loop"
  /\ UNCHANGED <<v8vars, handlevars, threadvars, status_, dbgsrv_port_,
                 serv_port, client, pending, pc_caller, pc_proc, push_msg,
                 crashed,
                 histvars, envvars>>

\* DbgSrv::end_write_, the completion callback of the oldest uv_write still
\* in flight. st is the status libuv passes (0, or a negative error code):
\* an error is printed, the request is freed, nothing else changes.
EndWrite(st) ==
  /\ ~crashed /\ pc_net = "poll"
  /\ completed < Len(written)
  /\ st \in WriteStatuses
  /\ completed' = completed + 1
  /\ UNCHANGED <<v8vars, handlevars, threadvars, srvvars, pending, pc_caller,
                 pc_net, pc_proc, push_msg, crashed, produced, written,
                 last_call, envvars>>

\* DbgSrv::shutdown_, first if: a connected bridge closes the send-wake and
\* client handles and becomes started.
Shutdown ==
  /\ ~crashed /\ pc_net = "poll"
  /\ "stop" \in pending /\ dbgsrv_stop_ = "active"
  /\ IF status_ = "connected"
     THEN /\ dbgsrv_send_' = "closed" /\ dbgsrv_clnt_' = "closed"
          /\ status_' = "started" /\ client' = 0
          /\ pending' = pending \ {"stop", "send"}
     ELSE /\ pending' = pending \ {"stop"}
          /\ UNCHANGED <<dbgsrv_send_, dbgsrv_clnt_, status_, client>>
  /\ pc_net' = "shutdown_2"
  /\ UNCHANGED <<v8vars, dbgsrv_serv_, dbgsrv_stop_, dbgproc_proc_,
                 dbgproc_stop_, threadvars, dbgsrv_port_, msg_queue_, msg_origin,
                 serv_port, pc_caller, pc_proc, push_msg, crashed, histvars,
                 envvars>>

\* DbgSrv::shutdown_, second if: a started bridge closes the listener and
\* the stop handle and becomes offline.
Shutdown2 ==
  /\ ~crashed /\ pc_net = "shutdown_2"
  /\ IF status_ = "started"
     THEN /\ dbgsrv_serv_' = "closed" /\ dbgsrv_stop_' = "closed"
          /\ status_' = "offline"
     ELSE UNCHANGED <<dbgsrv_serv_, dbgsrv_stop_, status_>>
  /\ pc_net' = "poll"
  /\ UNCHANGED <<v8vars, dbgsrv_clnt_, dbgsrv_send_, dbgproc_proc_,
                 dbgproc_stop_, threadvars, dbgsrv_port_, msg_queue_, msg_origin,
                 serv_port, client, pending, pc_caller, pc_proc, push_msg,
                 crashed, histvars, envvars>>

\* uv_run returns when the loop has no active handle and no write request
\* left; dbgsrv_ returns and the thread ends.
NetExit ==
  /\ ~crashed /\ pc_net = "poll"
  /\ \A h \in {dbgsrv_serv_, dbgsrv_clnt_, dbgsrv_send_, dbgsrv_stop_} :
       h # "active"
  /\ completed = Len(written)
  /\ pc_net' = "exited" /\ dbgsrv_thread_' = "exited"
  /\ UNCHANGED <<v8vars, handlevars, dbgproc_thread_, dbgsrv_loop_,
                 dbgproc_loop_, net_leaked, srvvars, pending, pc_caller,
                 pc_proc, push_msg, crashed, histvars, envvars>>

\* The same for a Network Loop thread that an earlier start created: its
\* uv_run returns too, at a time of its own.
LeakedExit ==
  /\ ~crashed /\ pc_net \in {"poll", "exited"}
  /\ net_leaked > 0
  /\ \A h \in {dbgsrv_serv_, dbgsrv_clnt_, dbgsrv_send_, dbgsrv_stop_} :
       h # "active"
  /\ completed = Len(written)
  /\ net_leaked' = net_leaked - 1
  /\ UNCHANGED <<v8vars, handlevars, dbgsrv_thread_, dbgproc_thread_,
                 dbgsrv_loop_, dbgproc_loop_, srvvars, pending, pcvars,
                 crashed, histvars, envvars>>

\* ---------------------------------------------- Processing Loop thread

\* DbgSrv::dbgproc_do_proc_ starts: libuv clears the pending signal, the
\* handler calls v8_.debugger_process, which takes the isolate's Locker.
DoProc ==
  /\ ~crashed /\ pc_proc = "poll"
  /\ "proc" \in pending /\ dbgproc_proc_ = "active"
  /\ locker = "none"
  /\ pending' = pending \ {"proc"}
  /\ locker' = "proc" /\ pc_proc' = "process"
  /\ UNCHANGED <<callback_, callbackopq_, dbg_isolate_, handler, cmds,
                 handlevars, threadvars, srvvars, pc_caller, pc_net,
                 push_msg, crashed, histvars, envvars>>

\* v8::Debug::ProcessDebugMessages answers the oldest queued command: the
\* engine calls debugger_message_handler (if installed), which calls the
\* registered callback (recv_from_debugger_), which starts push_front.
ProcessCommand ==
  /\ ~crashed /\ pc_proc = "process" /\ cmds # <<>>
  /\ cmds' = Tail(cmds)
  /\ IF CallbackInvoked
     THEN /\ produced' = produced + 1 /\ push_msg' = produced + 1
          /\ pc_proc' = "proc_push"
     ELSE UNCHANGED <<produced, push_msg, pc_proc>>
  /\ UNCHANGED <<callback_, callbackopq_, dbg_isolate_, handler, locker,
                 handlevars, threadvars, srvvars, pending, pc_caller, pc_net,
                 crashed, written, completed, last_call, envvars>>

ProcPushDone ==
  /\ ~crashed /\ pc_proc = "proc_push"
  /\ RecvFromDebuggerDone
  /\ pc_proc' = "process" /\ push_msg' = 0
  /\ UNCHANGED <<v8vars, handlevars, threadvars, status_, dbgsrv_port_,
                 serv_port, client, pc_caller, pc_net, histvars, envvars>>

\* debugger_process returns: the Locker is released.
ProcessEnd ==
  /\ ~crashed /\ pc_proc = "process" /\ cmds = <<>>
  /\ locker' = "none" /\ pc_proc' = "poll"
  /\ UNCHANGED <<callback_, callbackopq_, dbg_isolate_, handler, cmds,
                 handlevars, threadvars, srvvars, pending, pc_caller, pc_net,
                 push_msg, crashed, histvars, envvars>>

\* DbgSrv::dbgproc_do_stop_: close both handles of the Processing Loop.
\* libuv runs the pending async callbacks of a loop in the order the handles
\* were initialized: dbgproc_proc_ (initialized first) before dbgproc_stop_.
DoStop ==
  /\ ~crashed /\ pc_proc = "poll"
  /\ "pstop" \in pending /\ dbgproc_stop_ = "active"
  /\ "proc" \notin pending
  /\ dbgproc_proc_' = "closed" /\ dbgproc_stop_' = "closed"
  /\ pending' = pending \ {"pstop"}
  /\ UNCHANGED <<v8vars, dbgsrv_serv_, dbgsrv_clnt_, dbgsrv_send_,
                 dbgsrv_stop_, threadvars, srvvars, pcvars, crashed,
                 histvars, envvars>>

\* uv_run returns when the loop has no active handle left; dbgproc_ returns.
ProcExit ==
  /\ ~crashed /\ pc_proc = "poll"
  /\ dbgproc_proc_ # "active" /\ dbgproc_stop_ # "active"
  /\ pc_proc' = "exited" /\ dbgproc_thread_' = "exited"
  /\ UNCHANGED <<v8vars, handlevars, dbgsrv_thread_, dbgsrv_loop_,
                 dbgproc_loop_, net_leaked, srvvars, pending, pc_caller, pc_net,
                 push_msg, crashed, histvars, envvars>>

\* ------------------------------------------------------- specification
StartOutcomes == {"bind_fail", "getsockname_fail", "listen_fail", "ok"}

CallerNext ==
  \/ \E port \in Ports, o \in StartOutcomes, eph \in EphemeralPorts :
       Start(port, o, eph)
  \/ EvalBegin \/ EvalEmit \/ EvalPushDone \/ EvalEnd
  \/ DtorDebuggerStop \/ DtorStopNet \/ DtorJoinNet \/ DtorStopProc
  \/ DtorJoinProc

NetNext ==
  \/ \E st \in {"ok", "error"}, acc \in {"ok", "fail"} : Accept(st, acc)
  \/ RecvNothing \/ RecvError \/ RecvData \/ RecvDataDone
  \/ SendToSocket \/ DrainLoop \/ DrainPop
  \/ \E st \in WriteStatuses : EndWrite(st)
  \/ Shutdown \/ Shutdown2 \/ NetExit \/ LeakedExit

ProcNext ==
  \/ DoProc \/ ProcessCommand \/ ProcPushDone \/ ProcessEnd
  \/ DoStop \/ ProcExit

Next == CallerNext \/ NetNext \/ ProcNext

Spec == Init /\ [][Next]_vars

\* Fair scheduling of the Processing Loop: uv_run keeps calling the
\* callbacks of signalled handles, a debugger_process that has started runs
\* to its end, the isolate's Locker is granted to a thread that keeps asking
\* for it (strong fairness: eval takes and releases it in between), and
\* every eval returns.
FairSpec ==
  /\ Spec
  /\ SF_vars(DoProc)
  /\ WF_vars(ProcessCommand \/ ProcPushDone \/ ProcessEnd)
  /\ WF_vars(EvalPushDone \/ EvalEnd)

\* --------------------------------------------------------------- claims

\* The messages the engine callback produced so far, in production order.
Produced == [i \in 1..produced |-> i]
IsPrefix(a, b) == Len(a) <= Len(b) /\ \A i \in 1..Len(a) : a[i] = b[i]

\* C1: the payloads handed to uv_write by send_to_socket_ are, in every
\* reachable state, a prefix of the messages the engine callback produced
\* (production order, no message twice, none that was not produced).
C1_WritesArePrefixOfProduced == IsPrefix(written, Produced)

\* C2: a push by the engine callback and a drain by the send-wake handler
\* are never in progress on msg_queue_ at the same time.
C2_QueueAccessExclusive == ~(Pushing /\ Draining)

\* The threads that are inside a method of the _V8 instance.
InsideV8 ==
  (IF pc_caller \in {"eval", "eval_push"} THEN {"caller"} ELSE {})
  \cup (IF pc_net = "debugger_send" THEN {"net"} ELSE {})
  \cup (IF pc_proc \in {"process", "proc_push"} THEN {"proc"} ELSE {})

\* C3: at no time are two threads inside methods of the same _V8 instance.
C3_EngineSingleThreaded == Cardinality(InsideV8) <= 1

\* C4: while the status is connected, a connection event on the listener
\* accepts no new client and leaves the client and send-wake handles alone.
C4_NoAcceptWhileConnected ==
  [][(status_ = "connected" /\ nconns' # nconns)
       => UNCHANGED <<client, dbgsrv_clnt_, dbgsrv_send_>>]_vars

\* C5: every change of status_ is offline -> started by start,
\* started -> connected by accept, connected -> started by a client
\* disconnect or by shutdown_, or started -> offline by shutdown_.
C5_LinearTransitions ==
  [][status_' # status_ =>
       \/ status_ = "offline" /\ status_' = "started" /\ nstarts' # nstarts
       \/ status_ = "started" /\ status_' = "connected" /\ nconns' # nconns
       \/ /\ status_ = "connected" /\ status_' = "started"
          /\ pc_net = "poll" /\ nstarts' = nstarts /\ nconns' = nconns
       \/ status_ = "started" /\ status_' = "offline" /\ pc_net = "shutdown_2"
    ]_vars

\* The steps the three threads take on their own, without a new call by
\* the host or a new event from the client.
ProgressNext ==
  \/ \E st \in WriteStatuses : EndWrite(st)
  \/ EvalPushDone \/ EvalEnd
  \/ DtorStopNet \/ DtorJoinNet \/ DtorStopProc \/ DtorJoinProc
  \/ RecvDataDone \/ SendToSocket \/ DrainLoop \/ DrainPop
  \/ Shutdown \/ Shutdown2 \/ NetExit
  \/ ProcNext

\* C6: the destruction of a started or connected bridge never deadlocks:
\* until ~DbgSrv has returned, some thread can take a step of its own.
C6_DestructionNeverStuck ==
  (last_call.op = "destroy" /\ last_call.status # "offline"
     /\ pc_caller # "done")
    => ENABLED ProgressNext

\* C7: once ~DbgSrv has run debugger_stop, the callback is not invoked
\* again: no message is produced or pushed, no send-wake is signalled.
C7_NoCallbackAfterStop ==
  [][Destroying =>
       /\ produced' = produced
       /\ ~Pushing'
       /\ Len(msg_queue_') <= Len(msg_queue_)
       /\ ("send" \in pending' => "send" \in pending)]_vars

\* C7 witness: destruction has begun while the Processing Loop is inside
\* debugger_process with a command still to answer.
C7_Witness == Destroying /\ pc_proc = "process" /\ cmds # <<>>

\* C8: a start on a started or connected bridge changes nothing.
C8_SecondStartNoOp ==
  [][(nstarts' # nstarts /\ status_ # "offline")
       => UNCHANGED <<status_, dbgsrv_port_, serv_port, dbgsrv_serv_,
                      dbgsrv_clnt_, dbgsrv_send_, dbgsrv_stop_,
                      dbgsrv_thread_, pending>>]_vars

\* C9: while the bridge object is alive, get_port() (dbgsrv_port_) is 0
\* when the status is offline and the listener's bound port otherwise; a
\* start that returned failure leaves the bridge offline with port 0.
C9_PortTracksListening ==
  ~Destroying =>
    /\ status_ = "offline" => dbgsrv_port_ = 0
    /\ status_ # "offline" => dbgsrv_port_ = serv_port

\* C10: debugger_init returns true exactly when no callback was
\* registered, and then registers the callback and context it was given;
\* otherwise the registered callback and context stay as they were.
C10_InitRegistersOnce ==
  last_call.op = "debugger_init" =>
    /\ last_call.ret = (last_call.before_cb = "nullptr")
    /\ last_call.ret =>
         callback_ = last_call.cb /\ callbackopq_ = last_call.opq
    /\ ~last_call.ret =>
         callback_ = last_call.before_cb
           /\ callbackopq_ = last_call.before_opq

\* C10 witness: a debugger_init with a different callback was refused.
C10_Witness ==
  /\ last_call.op = "debugger_init" /\ ~last_call.ret
  /\ last_call.cb # callback_ /\ last_call.opq # callbackopq_

\* C11: debugger_send returns false and forwards nothing exactly when no
\* callback is registered at the moment of the call (before the first
\* successful debugger_init, and after a debugger_stop until the next one);
\* otherwise it returns true and appends the command to the debug channel.
C11_SendNeedsCallback ==
  last_call.op = "debugger_send" =>
    /\ ~crashed
    /\ last_call.ret = (last_call.before_cb # "nullptr")
    /\ cmds = IF last_call.before_cb # "nullptr"
              THEN Append(last_call.before_cmds, last_call.cmd)
              ELSE last_call.before_cmds

C13_NetworkStopsFirst ==
  /\ ("pstop" \in pending \/ pc_caller \in {"dtor_join_proc", "done"})
       => /\ pc_net \in {"off", "exited"}
          /\ dbgsrv_thread_ # "running" /\ net_leaked = 0
  /\ pc_caller = "done" => dbgproc_thread_ = "exited"
  /\ pc_net = "exited" => ~Pushing /\ "send" \notin pending

\* C14: destroying a bridge that is offline terminates with both loops
\* closed and both threads gone, and signals no async handle and joins no
\* thread that was never created.
C14_OfflineDestroy ==
  (last_call.op = "destroy" /\ last_call.status = "offline") =>
    /\ ~crashed
    /\ pc_caller # "done" => ENABLED ProgressNext
    /\ pc_caller \notin {"dtor_stop_net"} => dbgsrv_stop_ # "uninit"
    /\ pc_caller \in {"dtor_stop_proc", "dtor_join_proc", "done"}
         => dbgsrv_thread_ # "none"
    /\ pc_caller = "done"
         => /\ dbgsrv_loop_ = "closed" /\ dbgproc_loop_ = "closed"
            /\ dbgproc_thread_ = "exited"

\* C15: uv_loop_close is never called on a loop that still has a handle
\* that was initialized and not closed (it would answer UV_EBUSY).
C15_HandlesClosedBeforeLoop ==
  dbgsrv_loop_ # "busy" /\ dbgproc_loop_ # "busy"

\* The elements of a sequence.
Range(q) == {q[i] : i \in 1..Len(q)}

\* C16: wake-and-drain loses no message: a push that completes while a
\* client is connected puts the message in the queue and leaves a send-wake
\* pending, and as long as that client stays connected a queued message
\* has a send-wake pending or a drain in progress that hands it to uv_write.
C16_NoMessageLost ==
  [][/\ ((EvalPushDone \/ ProcPushDone) /\ status_ = "connected"
           /\ client # 0)
          => /\ push_msg \in Range(msg_queue_')
             /\ "send" \in pending' \/ Draining'
     /\ \A i \in 1..Len(msg_queue_') :
          (status_' = "connected" /\ client' # 0 /\ msg_origin'[i] = client')
            => ("send" \in pending' \/ Draining')
    ]_vars

C18_SendWakeSignalledLive ==
  [][(EvalPushDone \/ ProcPushDone) => dbgsrv_send_ = "active"]_vars

\* C19: send_to_socket_ writes a message only to the connection that was
\* attached when the message was pushed.
C19_WrittenToOriginClient ==
  [][written' # written
       => client # 0 /\ back(msg_origin) = client]_vars

\* C20: a queue entry is removed only after the uv_write that sends it has
\* completed (its end_write_ has run).
C20_PayloadOwnedUntilComplete ==
  [][DrainPop => completed = Len(written)]_vars

====
